---- MODULE Spec2Model ----
(***************************************************************************)
(* Model of the personal budgeting application (budget.py): the Expense,   *)
(* BudgetCategory and BudgetManager classes and the JSON data file.        *)
(*                                                                         *)
(* Python objects are records of their fields.  A call that can raise is   *)
(* an operator returning [raised |-> <exception name>] or                  *)
(* [raised |-> "none", value |-> <result>].  A str is the sequence of its  *)
(* characters, so that strip() and lower() are computed.  A JSON object is *)
(* a record whose DOMAIN is the set of keys present.                       *)
(***************************************************************************)
EXTENDS Integers, Sequences, FiniteSets, TLC

VARIABLES
    income,        \* BudgetManager.income
    savings_goal,  \* BudgetManager.savings_goal
    categories,    \* BudgetManager.categories: normalized name -> BudgetCategory
    alive,         \* TRUE once BudgetManager() has returned an object
    file,          \* the content of BudgetManager.DATA_FILE on disk
    category,      \* a stand-alone BudgetCategory (the fixture of TestBudgetCategory)
    call,          \* the last call made: [op |-> name, ...arguments]
    ret,           \* its outcome: [raised |-> ..., value |-> ...]
    pc,            \* where main() is: "start", "menu", "exited" or "crashed"
    prompt         \* the input validator in progress: what is typed, what was read

vars == <<income, savings_goal, categories, alive, file, category, call, ret, pc, prompt>>
mgr_vars == <<income, savings_goal, categories, alive, file>>
cli_vars == <<pc, prompt>>

(***************************************************************************)
(* Bounds and input sets                                                   *)
(***************************************************************************)
\* cap on the number of expenses one manager / one stand-alone category holds
MaxExpenses == 2

\* amounts offered to Expense / add_expense: negative, zero and positive
AmountInputs == {-1, 0, 1, 2}
\* amounts offered to set_income / set_savings_goal
MoneyInputs == {-1, 0, 3}
DescriptionInputs == {"rent", "food"}
DateInputs == {"2025-10-01", "2025-10-20"}
\* category names as typed: "g", "G", " G ", "r"
NameInputs == { <<"g">>, <<"G">>, <<" ", "G", " ">>, <<"r">> }
\* the expenses offered to the manager's add_expense: two rejected, two accepted
ExpenseInputs ==
    { <<-1, "rent", "2025-10-01">>, <<0, "food", "2025-10-20">>,
      <<1, "rent", "2025-10-01">>, <<2, "food", "2025-10-20">> }

(***************************************************************************)
(* str.strip() and str.lower()                                             *)
(***************************************************************************)
IsSpace(c) == c \in {" ", "\t", "\n"}

LowerChar(c) ==
    CASE c = "G" -> "g"
      [] c = "R" -> "r"
      [] c = "Y" -> "y"
      [] c = "E" -> "e"
      [] c = "S" -> "s"
      [] c = "N" -> "n"
      [] c = "A" -> "a"
      [] OTHER -> c

RECURSIVE lstrip(_)
lstrip(s) ==
    IF s = << >> THEN s
    ELSE IF IsSpace(Head(s)) THEN lstrip(Tail(s)) ELSE s

RECURSIVE rstrip(_)
rstrip(s) ==
    IF s = << >> THEN s
    ELSE IF IsSpace(s[Len(s)]) THEN rstrip(SubSeq(s, 1, Len(s) - 1)) ELSE s

strip(s) == rstrip(lstrip(s))

RECURSIVE lower(_)
lower(s) ==
    IF s = << >> THEN << >>
    ELSE <<LowerChar(Head(s))>> \o lower(Tail(s))

\* dict.get(key, default)
get(d, key, default) == IF key \in DOMAIN d THEN d[key] ELSE default

EmptyDict == [k \in {} |-> 0]

Ok(v) == [raised |-> "none", value |-> v]
Raise(e) == [raised |-> e]
None == [raised |-> "none"]

(***************************************************************************)
(* Python floats: an amount is a number (whole numbers are enough here) or *)
(* not-a-number, which nothing is less than, greater than or equal to and  *)
(* which every sum and difference it enters yields                        *)
(***************************************************************************)
\* the code that stands for float('nan'); no amount of the model reaches it
NaN == -1000

IsNaN(v) == v = NaN

float_lt(a, b) == ~IsNaN(a) /\ ~IsNaN(b) /\ a < b
float_le(a, b) == ~IsNaN(a) /\ ~IsNaN(b) /\ a <= b
float_ge(a, b) == ~IsNaN(a) /\ ~IsNaN(b) /\ a >= b
float_eq(a, b) == ~IsNaN(a) /\ ~IsNaN(b) /\ a = b
float_add(a, b) == IF IsNaN(a) \/ IsNaN(b) THEN NaN ELSE a + b
float_sub(a, b) == IF IsNaN(a) \/ IsNaN(b) THEN NaN ELSE a - b

\* the code that stands for a value that is no number at all, as the JSON
\* string "5000" or null read where a number is expected: arithmetic on it
\* raises TypeError
NoNumber == -2000

IsNumber(v) == v # NoNumber

(***************************************************************************)
(* class Expense                                                           *)
(***************************************************************************)
\* the constructor with the test "amount < 0": zero is accepted
Expense_accepts_zero(amount, description, date) ==
    IF amount < 0
    THEN Raise("ValueError")
    ELSE Ok([amount |-> amount, description |-> description, date |-> date])

Expense(amount, description, date) ==
    IF float_le(amount, 0)
    THEN Raise("ValueError")
    ELSE Ok([amount |-> amount, description |-> description, date |-> date])

\* to_dict with the values of 'description' and 'date' exchanged
Expense_to_dict_swapped(self) ==
    [amount |-> self.amount, description |-> self.date, date |-> self.description]

Expense_to_dict(self) ==
    [amount |-> self.amount, description |-> self.description, date |-> self.date]

Expense_from_dict(data) ==
    IF ~({"amount", "description", "date"} \subseteq DOMAIN data)
    THEN Raise("KeyError")
    ELSE Expense(data["amount"], data["description"], data["date"])

(***************************************************************************)
(* class BudgetCategory                                                    *)
(***************************************************************************)
BudgetCategory(name) == [name |-> name, expenses |-> << >>]

\* add_expense that inserts the new expense at the front of the list
BudgetCategory_add_expense_prepends(self, amount, description, date) ==
    LET expense == Expense(amount, description, date) IN
    IF expense.raised # "none"
    THEN [raised |-> expense.raised, self |-> self]
    ELSE [raised |-> "none",
          self |-> [self EXCEPT !.expenses = <<expense.value>> \o @]]

\* outcome of self.add_expense(...): the exception raised and self afterwards
BudgetCategory_add_expense(self, amount, description, date) ==
    LET expense == Expense(amount, description, date) IN
    IF expense.raised # "none"
    THEN [raised |-> expense.raised, self |-> self]
    ELSE [raised |-> "none",
          self |-> [self EXCEPT !.expenses = Append(@, expense.value)]]

RECURSIVE sum_amounts(_)
sum_amounts(expenses) ==
    IF expenses = << >> THEN 0
    ELSE float_add(Head(expenses).amount, sum_amounts(Tail(expenses)))

\* a total that stops after the first expense
BudgetCategory_total_first_only(self) ==
    IF self.expenses = << >> THEN 0 ELSE Head(self.expenses).amount

BudgetCategory_total_expenses(self) == sum_amounts(self.expenses)

\* [expense.to_dict() for expense in self.expenses]
RECURSIVE expenses_to_dicts(_)
expenses_to_dicts(expenses) ==
    IF expenses = << >> THEN << >>
    ELSE <<Expense_to_dict(Head(expenses))>> \o expenses_to_dicts(Tail(expenses))

BudgetCategory_to_dict(self) ==
    [name |-> self.name, expenses |-> expenses_to_dicts(self.expenses)]

\* [Expense.from_dict(exp_data) for exp_data in ...]: the list, or the first
\* exception an element raises
RECURSIVE expenses_from_dicts(_)
expenses_from_dicts(dicts) ==
    IF dicts = << >> THEN Ok(<< >>)
    ELSE LET first == Expense_from_dict(Head(dicts)) IN
         IF first.raised # "none" THEN Raise(first.raised)
         ELSE LET rest == expenses_from_dicts(Tail(dicts)) IN
              IF rest.raised # "none" THEN Raise(rest.raised)
              ELSE Ok(<<first.value>> \o rest.value)

BudgetCategory_from_dict(data) ==
    IF "name" \notin DOMAIN data
    THEN Raise("KeyError")
    ELSE LET made == expenses_from_dicts(get(data, "expenses", << >>)) IN
         IF made.raised # "none"
         THEN Raise(made.raised)
         ELSE Ok([name |-> data["name"], expenses |-> made.value])

(***************************************************************************)
(* class BudgetManager: the methods as functions of self                   *)
(***************************************************************************)
Self == [income |-> income, savings_goal |-> savings_goal, categories |-> categories]

\* the fields __init__ assigns before it calls load_data
Defaults == [income |-> 0, savings_goal |-> 0, categories |-> EmptyDict]

\* set_income that adds the amount to the stored income
BudgetManager_set_income_additive(self, amount) ==
    IF amount < 0
    THEN [raised |-> "ValueError", self |-> self]
    ELSE [raised |-> "none", self |-> [self EXCEPT !.income = @ + amount]]

BudgetManager_set_income(self, amount) ==
    IF float_lt(amount, 0)
    THEN [raised |-> "ValueError", self |-> self]
    ELSE [raised |-> "none", self |-> [self EXCEPT !.income = amount]]

BudgetManager_set_savings_goal(self, amount) ==
    IF float_lt(amount, 0)
    THEN [raised |-> "ValueError", self |-> self]
    ELSE [raised |-> "none", self |-> [self EXCEPT !.savings_goal = amount]]

\* category_name.strip(), without lower()
sanitize_strip_only(category_name) == strip(category_name)

\* category_name.strip().lower()
sanitize(category_name) == lower(strip(category_name))

\* add_expense that names a new category as typed, not as sanitized
BudgetManager_add_expense_raw_name(self, category_name, amount, description, date) ==
    LET name == sanitize(category_name)
        cats == IF name \notin DOMAIN self.categories
                THEN (name :> BudgetCategory(category_name)) @@ self.categories
                ELSE self.categories
        added == BudgetCategory_add_expense(cats[name], amount, description, date)
    IN [raised |-> added.raised,
        self |-> [self EXCEPT !.categories = [cats EXCEPT ![name] = added.self]]]

BudgetManager_add_expense(self, category_name, amount, description, date) ==
    LET name == sanitize(category_name)
        cats == IF name \notin DOMAIN self.categories
                THEN (name :> BudgetCategory(name)) @@ self.categories
                ELSE self.categories
        added == BudgetCategory_add_expense(cats[name], amount, description, date)
    IN [raised |-> added.raised,
        self |-> [self EXCEPT !.categories = [cats EXCEPT ![name] = added.self]]]

\* sum(category.total_expenses() for category in cats.values())
RECURSIVE sum_totals(_)
sum_totals(cats) ==
    IF DOMAIN cats = {} THEN 0
    ELSE LET name == CHOOSE n \in DOMAIN cats : TRUE IN
         float_add(BudgetCategory_total_expenses(cats[name]),
                   sum_totals([n \in DOMAIN cats \ {name} |-> cats[n]]))

\* a total that counts one category only
BudgetManager_total_one_category(self) ==
    IF DOMAIN self.categories = {} THEN 0
    ELSE BudgetCategory_total_expenses(
            self.categories[CHOOSE n \in DOMAIN self.categories : TRUE])

BudgetManager_total_expenses(self) == sum_totals(self.categories)

\* progress_toward_goal without the clamp of 'needed'
BudgetManager_progress_unclamped(self) ==
    LET total_exp == BudgetManager_total_expenses(self)
        current_savings == self.income - total_exp
        needed == self.savings_goal - current_savings
    IN [on_track |-> current_savings >= self.savings_goal,
        current_savings |-> current_savings,
        needed |-> needed]

\* max(0, x) keeps 0 unless x > 0
BudgetManager_progress_toward_goal(self) ==
    LET total_exp == BudgetManager_total_expenses(self)
        current_savings == float_sub(self.income, total_exp)
        needed == float_sub(self.savings_goal, current_savings)
    IN [on_track |-> float_ge(current_savings, self.savings_goal),
        current_savings |-> current_savings,
        needed |-> IF float_lt(0, needed) THEN needed ELSE 0]

\* what progress_toward_goal raises: the subtractions of lines 227 and 228 need
\* numbers
BudgetManager_progress_raised(self) ==
    IF IsNumber(self.income) /\ IsNumber(self.savings_goal) THEN "none" ELSE "TypeError"

(***************************************************************************)
(* The data file: json.dump / open / json.load                             *)
(***************************************************************************)
\* the dictionary save_data builds
save_document(self) ==
    [income |-> self.income,
     savings_goal |-> self.savings_goal,
     categories |-> [name \in DOMAIN self.categories |->
                        BudgetCategory_to_dict(self.categories[name])]]

\* the file after json.dump(data, f) has completed
json_dump(data) == [kind |-> "json", data |-> data]

\* os.path.exists(DATA_FILE)
exists(f) == f.kind # "missing"

\* open(DATA_FILE, 'r') followed by json.load(f)
json_load(f) ==
    CASE f.kind = "unreadable" -> Raise("IOError")
      [] f.kind = "garbage" -> Raise("JSONDecodeError")
      [] OTHER -> Ok(f.data)

\* the categories comprehension of load_data: the exceptions its elements can
\* raise (the first faulty entry in file order decides which one is raised)
load_faults(categories_data) ==
    { BudgetCategory_from_dict(categories_data[name]).raised :
        name \in DOMAIN categories_data } \ {"none"}

load_categories(categories_data) ==
    [name \in DOMAIN categories_data |->
        BudgetCategory_from_dict(categories_data[name]).value]

\* an except clause that names IOError alone
load_handled_io_only == {"IOError"}

\* the exceptions load_data handles itself
load_handled == {"IOError", "JSONDecodeError"}

\* the outcomes of self.load_data() on file f: the exception that leaves the
\* call and self afterwards
BudgetManager_load_data(self, f) ==
    IF ~exists(f) THEN {[raised |-> "none", self |-> self]}
    ELSE LET loaded == json_load(f) IN
    IF loaded.raised # "none"
    THEN {[raised |-> IF loaded.raised \in load_handled THEN "none" ELSE loaded.raised,
           self |-> self]}
    ELSE LET data == loaded.value
             self1 == [self EXCEPT !.income = get(data, "income", 0),
                                   !.savings_goal = get(data, "savings_goal", 0)]
             categories_data == get(data, "categories", EmptyDict)
             faults == load_faults(categories_data)
         IN IF faults = {}
            THEN {[raised |-> "none",
                   self |-> [self1 EXCEPT !.categories = load_categories(categories_data)]]}
            ELSE {[raised |-> IF e \in load_handled THEN "none" ELSE e, self |-> self1] :
                    e \in faults}

\* save_data whose except clause does not re-raise
BudgetManager_save_data_swallows(self, f) ==
    { [raised |-> "none", file |-> json_dump(save_document(self))],
      [raised |-> "none", file |-> f],
      [raised |-> "none", file |-> [kind |-> "garbage"]] }

\* the outcomes of self.save_data(): the exception raised and the file afterwards.
\* open(..., 'w') can fail and leave the file as it was; a write can fail after
\* open has truncated the file, which leaves an incomplete document.
BudgetManager_save_data(self, f) ==
    { [raised |-> "none", file |-> json_dump(save_document(self))],
      [raised |-> "IOError", file |-> f],
      [raised |-> "IOError", file |-> [kind |-> "garbage"]] }

(***************************************************************************)
(* Data files the program can find at start-up.  Besides the absent, the   *)
(* unreadable and the syntactically broken file these are well-formed JSON *)
(* documents somebody else wrote: permissive loading accepts missing keys. *)
(***************************************************************************)
ExpenseDict(amount) == [amount |-> amount, description |-> "rent", date |-> "2025-10-01"]

InitialDocuments ==
    { \* {}
      EmptyDict,
      \* negative income and goal, no categories
      [income |-> -1, savings_goal |-> -1, categories |-> EmptyDict],
      \* an expense with amount 0 after a good one
      [income |-> 3, savings_goal |-> 0,
       categories |-> (<<"g">> :> [name |-> <<"g">>,
                                   expenses |-> <<ExpenseDict(1), ExpenseDict(0)>>])],
      \* a category without "name"
      [income |-> 3, savings_goal |-> 3,
       categories |-> (<<"g">> :> [expenses |-> <<ExpenseDict(2)>>])],
      \* a category without "expenses" whose name is not its key
      [savings_goal |-> 3,
       categories |-> (<<"g">> :> [name |-> <<"G">>])] }

InitialFiles ==
    { [kind |-> "missing"], [kind |-> "unreadable"], [kind |-> "garbage"] }
    \cup { json_dump(d) : d \in InitialDocuments }

(***************************************************************************)
(* Initial state: the process has started, no manager is constructed yet.  *)
(***************************************************************************)
Init ==
    /\ income = Defaults.income
    /\ savings_goal = Defaults.savings_goal
    /\ categories = Defaults.categories
    /\ alive = FALSE
    /\ file \in InitialFiles
    /\ category = BudgetCategory(<<"g">>)
    /\ call = [op |-> "start"]
    /\ ret = None
    /\ pc = "start"
    /\ prompt = [fn |-> "idle", typed |-> << >>, reads |-> 0, returned |-> TRUE]

SetSelf(self) ==
    /\ income' = self.income
    /\ savings_goal' = self.savings_goal
    /\ categories' = self.categories

Outcome(raised) == IF raised = "none" THEN None ELSE Raise(raised)

RECURSIVE count_expenses(_)
count_expenses(cats) ==
    IF DOMAIN cats = {} THEN 0
    ELSE LET name == CHOOSE n \in DOMAIN cats : TRUE IN
         Len(cats[name].expenses) + count_expenses([n \in DOMAIN cats \ {name} |-> cats[n]])

(***************************************************************************)
(* Calls on the manager                                                    *)
(***************************************************************************)
\* manager = BudgetManager(): __init__ sets the defaults and calls load_data;
\* an exception leaving load_data leaves __init__, and there is no object
new_BudgetManager ==
    \E out \in BudgetManager_load_data(Defaults, file) :
        /\ SetSelf(out.self)
        /\ alive' = (out.raised = "none")
        /\ call' = [op |-> "BudgetManager"]
        /\ ret' = Outcome(out.raised)
        /\ UNCHANGED <<file, category>>
    /\ UNCHANGED cli_vars

set_income(amount) ==
    /\ alive
    /\ LET out == BudgetManager_set_income(Self, amount) IN
        /\ SetSelf(out.self)
        /\ ret' = Outcome(out.raised)
    /\ call' = [op |-> "set_income", amount |-> amount]
    /\ UNCHANGED <<alive, file, category>>
    /\ UNCHANGED cli_vars

set_savings_goal(amount) ==
    /\ alive
    /\ LET out == BudgetManager_set_savings_goal(Self, amount) IN
        /\ SetSelf(out.self)
        /\ ret' = Outcome(out.raised)
    /\ call' = [op |-> "set_savings_goal", amount |-> amount]
    /\ UNCHANGED <<alive, file, category>>
    /\ UNCHANGED cli_vars

\* add_expense that also writes the data file (an autosave)
add_expense_autosaves(category_name, amount, description, date) ==
    /\ alive
    /\ Expense(amount, description, date).raised = "none" => count_expenses(categories) < MaxExpenses
    /\ LET out == BudgetManager_add_expense(Self, category_name, amount, description, date) IN
        /\ SetSelf(out.self)
        /\ ret' = Outcome(out.raised)
        /\ file' = json_dump(save_document(out.self))
    /\ call' = [op |-> "add_expense", category_name |-> category_name]
    /\ UNCHANGED <<alive, category>>
    /\ UNCHANGED cli_vars

add_expense(category_name, amount, description, date) ==
    /\ alive
    /\ Expense(amount, description, date).raised = "none" => count_expenses(categories) < MaxExpenses
    /\ LET out == BudgetManager_add_expense(Self, category_name, amount, description, date) IN
        /\ SetSelf(out.self)
        /\ ret' = Outcome(out.raised)
    /\ call' = [op |-> "add_expense", category_name |-> category_name]
    /\ UNCHANGED <<alive, file, category>>
    /\ UNCHANGED cli_vars

total_expenses ==
    /\ alive
    /\ ret' = Ok(BudgetManager_total_expenses(Self))
    /\ call' = [op |-> "total_expenses"]
    /\ UNCHANGED <<mgr_vars, category>>
    /\ UNCHANGED cli_vars

progress_toward_goal ==
    /\ alive
    /\ ret' = IF BudgetManager_progress_raised(Self) = "none"
              THEN Ok(BudgetManager_progress_toward_goal(Self))
              ELSE Raise(BudgetManager_progress_raised(Self))
    /\ call' = [op |-> "progress_toward_goal"]
    /\ UNCHANGED <<mgr_vars, category>>
    /\ UNCHANGED cli_vars

save_data ==
    /\ alive
    /\ \E out \in BudgetManager_save_data(Self, file) :
        /\ file' = out.file
        /\ ret' = Outcome(out.raised)
    /\ call' = [op |-> "save_data"]
    /\ UNCHANGED <<income, savings_goal, categories, alive, category>>
    /\ UNCHANGED cli_vars

load_data ==
    /\ alive
    /\ \E out \in BudgetManager_load_data(Self, file) :
        /\ SetSelf(out.self)
        /\ ret' = Outcome(out.raised)
    /\ call' = [op |-> "load_data"]
    /\ UNCHANGED <<alive, file, category>>
    /\ UNCHANGED cli_vars

Next ==
    \/ new_BudgetManager
    \/ \E amount \in MoneyInputs : set_income(amount)
    \/ \E amount \in MoneyInputs : set_savings_goal(amount)
    \/ \E category_name \in NameInputs, e \in ExpenseInputs :
            add_expense(category_name, e[1], e[2], e[3])
    \/ total_expenses
    \/ progress_toward_goal
    \/ save_data
    \/ load_data

Spec == Init /\ [][Next]_vars

(***************************************************************************)
(* Calls on an Expense and on a stand-alone BudgetCategory, as the unit    *)
(* tests of the two classes make them                                      *)
(***************************************************************************)
new_Expense(amount, description, date) ==
    /\ ret' = Expense(amount, description, date)
    /\ call' = [op |-> "Expense", amount |-> amount,
                description |-> description, date |-> date]
    /\ UNCHANGED <<mgr_vars, category>>
    /\ UNCHANGED cli_vars

category_add_expense(amount, description, date) ==
    /\ Expense(amount, description, date).raised = "none" => Len(category.expenses) < MaxExpenses
    /\ LET out == BudgetCategory_add_expense(category, amount, description, date) IN
        /\ category' = out.self
        /\ ret' = Outcome(out.raised)
    /\ call' = [op |-> "BudgetCategory.add_expense", amount |-> amount,
                description |-> description, date |-> date]
    /\ UNCHANGED mgr_vars
    /\ UNCHANGED cli_vars

category_total_expenses ==
    /\ ret' = Ok(BudgetCategory_total_expenses(category))
    /\ call' = [op |-> "BudgetCategory.total_expenses"]
    /\ UNCHANGED <<mgr_vars, category>>
    /\ UNCHANGED cli_vars

NextUnit ==
    \/ \E amount \in AmountInputs, description \in DescriptionInputs, date \in DateInputs :
            new_Expense(amount, description, date)
    \/ \E amount \in AmountInputs, description \in DescriptionInputs, date \in DateInputs :
            category_add_expense(amount, description, date)
    \/ category_total_expenses

\* the unit tests of Expense and BudgetCategory touch no data file
InitUnit == Init /\ file = [kind |-> "missing"]

SpecUnit == InitUnit /\ [][NextUnit]_vars

(***************************************************************************)
(* The manager called with any float for an amount, float('nan') included  *)
(***************************************************************************)
FloatInputs == {NaN, 0, 1, 3}

NextFloat ==
    \/ new_BudgetManager
    \/ \E amount \in FloatInputs : set_income(amount)
    \/ \E amount \in FloatInputs : set_savings_goal(amount)
    \/ \E category_name \in {<<"g">>, <<"r">>}, amount \in FloatInputs :
            add_expense(category_name, amount, "rent", "2025-10-01")
    \/ total_expenses
    \/ progress_toward_goal

InitFloat == Init /\ file = [kind |-> "missing"]

SpecFloat == InitFloat /\ [][NextFloat]_vars

(***************************************************************************)
(* Properties                                                              *)
(***************************************************************************)
ExpenseFields == {"amount", "description", "date"}

\* C1: Expense(amount, description, date) raises ValueError and yields no
\* object when amount <= 0; when amount > 0 it yields an object whose three
\* fields are exactly the three arguments.
C1_ExpenseConstruction ==
    call.op = "Expense" =>
        IF call.amount <= 0
        THEN ret.raised = "ValueError" /\ "value" \notin DOMAIN ret
        ELSE /\ ret.raised = "none"
             /\ DOMAIN ret.value = ExpenseFields
             /\ ret.value.amount = call.amount
             /\ ret.value.description = call.description
             /\ ret.value.date = call.date

\* an Expense(0, ...) call has been rejected
C1_Witness ==
    call.op = "Expense" /\ call.amount = 0 /\ ret.raised = "ValueError"

\* C2: a manager constructed right after a successful save_data has the saving
\* manager's income, savings_goal, category names and, per category, the same
\* expenses in the same order.
C2_RoundTrip ==
    [][ (call.op = "save_data" /\ ret.raised = "none" /\ call'.op = "BudgetManager") =>
            /\ alive' /\ ret'.raised = "none"
            /\ income' = income
            /\ savings_goal' = savings_goal
            /\ DOMAIN categories' = DOMAIN categories
            /\ \A name \in DOMAIN categories :
                    categories'[name].expenses = categories[name].expenses ]_vars

\* a manager was constructed from a file that holds what it now holds: income 3
\* and a category of two different expenses
C2_Witness ==
    /\ call.op = "BudgetManager" /\ alive
    /\ file = json_dump(save_document(Self))
    /\ income = 3
    /\ \E name \in DOMAIN categories :
          /\ Len(categories[name].expenses) = 2
          /\ categories[name].expenses[1] # categories[name].expenses[2]

\* a well-formed JSON document with a record that violates the model: a category
\* without a name, or an expense that lacks a field or whose amount is <= 0
ViolatesModel(data) ==
    \E name \in DOMAIN get(data, "categories", EmptyDict) :
        LET cat_data == data["categories"][name]
            exps == get(cat_data, "expenses", << >>)
        IN \/ "name" \notin DOMAIN cat_data
           \/ \E i \in 1..Len(exps) :
                \/ ~(ExpenseFields \subseteq DOMAIN exps[i])
                \/ exps[i]["amount"] <= 0

IsDefaults ==
    income = 0 /\ savings_goal = 0 /\ categories = EmptyDict

\* C3 (as claimed): constructing a manager on a well-formed file that holds a
\* record violating the model raises nothing and yields the defaults.
C3_CorruptionAbsorbed ==
    (call.op = "BudgetManager" /\ file.kind = "json" /\ ViolatesModel(file.data)) =>
        (ret.raised = "none" /\ alive /\ IsDefaults)

C5_NonNegative ==
    alive => (income >= 0 /\ savings_goal >= 0)

\* C6 (as claimed): every expense a category holds has amount > 0, whether it
\* was added or rebuilt from a persisted record.
C6_PositiveAmounts ==
    \A name \in DOMAIN categories :
        \A i \in 1..Len(categories[name].expenses) :
            float_lt(0, categories[name].expenses[i].amount)

\* the arithmetic sum of the amounts of a sequence of expenses, by position
RECURSIVE amounts_up_to(_, _)
amounts_up_to(expenses, n) ==
    IF n = 0 THEN 0 ELSE amounts_up_to(expenses, n - 1) + expenses[n].amount

ArithmeticSum(expenses) == amounts_up_to(expenses, Len(expenses))

\* the sum of the amounts of every expense of every category, taken over the
\* set of (category, position) pairs
RECURSIVE sum_over(_, _)
sum_over(cats, places) ==
    IF places = {} THEN 0
    ELSE LET p == CHOOSE q \in places : TRUE IN
         cats[p[1]].expenses[p[2]].amount + sum_over(cats, places \ {p})

AllAmounts(cats) ==
    sum_over(cats, UNION { {<<name, i>> : i \in 1..Len(cats[name].expenses)} :
                             name \in DOMAIN cats })

Max(a, b) == IF a >= b THEN a ELSE b

\* a manager with one expense under "r" and one under "g"
ExampleManager(inc, goal, rent, groceries) ==
    [income |-> inc, savings_goal |-> goal,
     categories |->
        (<<"r">> :> [name |-> <<"r">>,
                     expenses |-> <<[amount |-> rent, description |-> "rent",
                                     date |-> "2025-10-01"]>>])
        @@ (<<"g">> :> [name |-> <<"g">>,
                        expenses |-> <<[amount |-> groceries, description |-> "food",
                                        date |-> "2025-10-20"]>>])]

\* C7: progress_toward_goal returns current_savings = income - total_expenses(),
\* on_track = (current_savings >= savings_goal) and
\* needed = max(0, savings_goal - current_savings), never negative; income 5000,
\* goal 1000, expenses 1200 + 300 gives (TRUE, 3500, 0) and income 3000, goal
\* 1000, expenses 1200 + 1000 gives (FALSE, 800, 200).
C7_Progress ==
    /\ call.op = "progress_toward_goal" =>
          LET current_savings == income - AllAmounts(categories) IN
          /\ ret.value.current_savings = current_savings
          /\ ret.value.on_track = (current_savings >= savings_goal)
          /\ ret.value.needed = Max(0, savings_goal - current_savings)
          /\ ret.value.needed >= 0
    /\ BudgetManager_progress_toward_goal(ExampleManager(5000, 1000, 1200, 300))
          = [on_track |-> TRUE, current_savings |-> 3500, needed |-> 0]
    /\ BudgetManager_progress_toward_goal(ExampleManager(3000, 1000, 1200, 1000))
          = [on_track |-> FALSE, current_savings |-> 800, needed |-> 200]

\* progress was computed for a manager with expenses whose savings exceed the
\* goal, where needed is clamped to 0
C7_Witness ==
    /\ call.op = "progress_toward_goal"
    /\ AllAmounts(categories) > 0
    /\ savings_goal - ret.value.current_savings < 0
    /\ ret.value.needed = 0

\* what each name offered to add_expense reads once trimmed and lowercased
TrimmedLowercase ==
    (<<"g">> :> <<"g">>) @@ (<<"G">> :> <<"g">>)
    @@ (<<" ", "G", " ">> :> <<"g">>) @@ (<<"r">> :> <<"r">>)

total_under(cats, name) ==
    IF name \in DOMAIN cats THEN ArithmeticSum(cats[name].expenses) ELSE 0

\* C8: add_expense looks the category up, or creates it, under the trimmed,
\* lowercased name: names that differ in case or surrounding whitespace share
\* one category, keyed by the normalized name, whose total grows by each amount
\* added; normalizing a normalized name changes nothing.
C8_Normalization ==
    /\ [](call.op = "add_expense" =>
            LET name == TrimmedLowercase[call.category_name] IN
            /\ name \in DOMAIN categories
            /\ \A other \in NameInputs :
                  other \in DOMAIN categories => other = TrimmedLowercase[other])
    /\ [](\A n \in NameInputs : sanitize(sanitize(n)) = sanitize(n))
    /\ [][ (call'.op = "add_expense" /\ ret'.raised = "none") =>
              LET name == TrimmedLowercase[call'.category_name] IN
              /\ DOMAIN categories' = DOMAIN categories \cup {name}
              /\ Len(categories'[name].expenses) > 0
              /\ total_under(categories', name) =
                    total_under(categories, name)
                    + categories'[name].expenses[Len(categories'[name].expenses)].amount
              /\ \A other \in DOMAIN categories \ {name} :
                    categories'[other] = categories[other] ]_vars

\* an expense was added under " G " to the one category "g", which now holds
\* two expenses that total 3
C8_Witness ==
    /\ call.op = "add_expense" /\ ret.raised = "none"
    /\ call.category_name = <<" ", "G", " ">>
    /\ DOMAIN categories = {<<"g">>}
    /\ Len(categories[<<"g">>].expenses) = 2
    /\ total_under(categories, <<"g">>) = 3

\* C9: BudgetCategory.total_expenses() returns the arithmetic sum of the amounts
\* of the expenses the category holds after any add_expense calls, accepted or
\* rejected, returns 0 for a category without expenses, and changes nothing.
C9_CategoryTotal ==
    [][ call'.op = "BudgetCategory.total_expenses" =>
            /\ ret'.raised = "none"
            /\ ret'.value = ArithmeticSum(category.expenses)
            /\ (category.expenses = << >> => ret'.value = 0)
            /\ category' = category ]_vars

\* the total of a category of two expenses was taken after a rejected add
C9_Witness ==
    /\ call.op = "BudgetCategory.total_expenses"
    /\ Len(category.expenses) = 2
    /\ ret.value = 3

\* C10: BudgetManager.total_expenses() returns the sum of the totals of all
\* categories, which is the sum of the amounts of all expenses held under any
\* name, and 0 when there is no category.
C10_ManagerTotal ==
    call.op = "total_expenses" =>
        /\ ret.raised = "none"
        /\ ret.value = AllAmounts(categories)
        /\ (DOMAIN categories = {} => ret.value = 0)

\* the total was taken over two categories holding 1 and 2
C10_Witness ==
    /\ call.op = "total_expenses"
    /\ Cardinality(DOMAIN categories) = 2
    /\ \A name \in DOMAIN categories : Len(categories[name].expenses) = 1
    /\ ret.value = 3


\* C11: set_income(a) and set_savings_goal(a) raise ValueError when a < 0 and
\* change nothing; for a >= 0, zero included, they replace the stored value by
\* a (they do not add to it) and change no other field.
C11_Setters ==
    [][ /\ call'.op = "set_income" =>
              /\ savings_goal' = savings_goal /\ categories' = categories
              /\ file' = file /\ alive' = alive
              /\ IF call'.amount < 0
                 THEN ret'.raised = "ValueError" /\ income' = income
                 ELSE ret'.raised = "none" /\ income' = call'.amount
        /\ call'.op = "set_savings_goal" =>
              /\ income' = income /\ categories' = categories
              /\ file' = file /\ alive' = alive
              /\ IF call'.amount < 0
                 THEN ret'.raised = "ValueError" /\ savings_goal' = savings_goal
                 ELSE ret'.raised = "none" /\ savings_goal' = call'.amount ]_vars

\* set_income(0) has succeeded on a manager that holds a goal and an expense
C11_Witness ==
    /\ call.op = "set_income" /\ call.amount = 0 /\ ret.raised = "none"
    /\ income = 0 /\ savings_goal = 3 /\ DOMAIN categories # {}


\* C12: a save_data whose write fails raises the IOError to its caller (a call
\* that returns normally has written the whole document), and save_data,
\* failed or not, leaves income, savings_goal and categories unchanged.
C12_SavePropagates ==
    [][ call'.op = "save_data" =>
            /\ income' = income /\ savings_goal' = savings_goal
            /\ categories' = categories /\ alive' = alive
            /\ ret'.raised \in {"none", "IOError"}
            /\ (file' # json_dump(save_document(Self)) => ret'.raised = "IOError") ]_vars

\* a save_data of a manager with expenses has raised IOError
C12_Witness ==
    /\ call.op = "save_data" /\ ret.raised = "IOError"
    /\ \E name \in DOMAIN categories : Len(categories[name].expenses) > 0


\* C14 (as claimed): an add_expense that raises because amount <= 0 leaves the
\* category mapping exactly as it was; no empty category appears.
C14_FailedAddAtomic ==
    [][ (call'.op = "add_expense" /\ ret'.raised = "ValueError") =>
            categories' = categories ]_vars

IsPrefix(a, b) == Len(a) <= Len(b) /\ SubSeq(b, 1, Len(a)) = a

expenses_under(cats, name) ==
    IF name \in DOMAIN cats THEN cats[name].expenses ELSE << >>

\* C16: apart from load_data (and the construction of a new manager), no call
\* removes, reorders or modifies an expense a category holds: an accepted
\* add_expense appends exactly one expense at the end of its category, equal
\* ones allowed, a rejected one leaves every sequence as it was, and every
\* other call leaves the categories untouched.
C16_AppendOnly ==
    [][ call'.op \notin {"load_data", "BudgetManager"} =>
          /\ \A name \in DOMAIN categories :
                /\ name \in DOMAIN categories'
                /\ IsPrefix(categories[name].expenses, categories'[name].expenses)
          /\ call'.op # "add_expense" => categories' = categories
          /\ call'.op = "add_expense" =>
                LET name == TrimmedLowercase[call'.category_name]
                    old == expenses_under(categories, name)
                    new == expenses_under(categories', name)
                IN /\ IF ret'.raised = "none"
                      THEN Len(new) = Len(old) + 1 /\ IsPrefix(old, new)
                      ELSE new = old
                   /\ \A other \in DOMAIN categories' \ {name} :
                         /\ other \in DOMAIN categories
                         /\ categories'[other] = categories[other] ]_vars

\* an accepted add_expense has appended a second, equal expense
C16_Witness ==
    /\ call.op = "add_expense" /\ ret.raised = "none"
    /\ \E name \in DOMAIN categories :
          /\ Len(categories[name].expenses) = 2
          /\ categories[name].expenses[1] = categories[name].expenses[2]

\* C17 (as claimed): in every result of progress_toward_goal on_track holds
\* exactly when needed = 0 and fails exactly when needed > 0; when
\* current_savings equals savings_goal the result is on_track with needed = 0.
C17_OnTrackIffNothingNeeded ==
    call.op = "progress_toward_goal" =>
        /\ ret.value.on_track <=> float_eq(ret.value.needed, 0)
        /\ ~ret.value.on_track <=> float_lt(0, ret.value.needed)
        /\ float_eq(ret.value.current_savings, savings_goal) =>
              (ret.value.on_track /\ float_eq(ret.value.needed, 0))

\* C18 (as claimed): when a load_data call ends, in __init__ or on a live
\* manager, either income, savings_goal and categories are all what they were
\* before, or all three are taken from the file.
C18_LoadAllOrNothing ==
    [][ call'.op \in {"load_data", "BudgetManager"} =>
          LET before == IF call'.op = "BudgetManager" THEN Defaults ELSE Self IN
          \/ /\ income' = before.income
             /\ savings_goal' = before.savings_goal
             /\ categories' = before.categories
          \/ /\ file.kind = "json"
             /\ income' = get(file.data, "income", 0)
             /\ savings_goal' = get(file.data, "savings_goal", 0)
             /\ DOMAIN categories' = DOMAIN get(file.data, "categories", EmptyDict) ]_vars

\* a manager that starts without a data file
InitFresh == Init /\ file = [kind |-> "missing"]

SpecFresh == InitFresh /\ [][Next]_vars

\* a name without surrounding whitespace and without an uppercase letter
IsTrimmedLowercase(s) ==
    /\ s # << >> => (s[1] # " " /\ s[Len(s)] # " ")
    /\ \A i \in 1..Len(s) : s[i] \notin {"G", "R"}

\* C19: starting without a data file, after any adds, sets, saves and
\* constructions from the saved file every key of the category mapping is
\* trimmed and lowercase and is the name of the category it maps to.
C19_KeysAreNames ==
    \A key \in DOMAIN categories :
        IsTrimmedLowercase(key) /\ categories[key].name = key

\* a manager constructed from its own saved file holds two categories with
\* one expense each
C19_Witness ==
    /\ call.op = "BudgetManager" /\ alive /\ file.kind = "json"
    /\ Cardinality(DOMAIN categories) = 2
    /\ \A key \in DOMAIN categories : Len(categories[key].expenses) = 1


\* a new manager constructed on a file the program saved holds exactly the
\* document in the file
ObservesSavedFile ==
    (call'.op = "BudgetManager" /\ file.kind = "json" /\ file \notin InitialFiles) =>
        (alive' /\ ret'.raised = "none" /\ save_document(Self') = file.data)

\* C15 (as claimed): the data file changes only by a successful save_data,
\* which overwrites it with the saving manager's state, so that the file always
\* holds the most recent successful save (or what was there before the first),
\* and a new manager observes exactly that.
C15_FollowsLastSuccessfulSave ==
    [][ /\ file' # file =>
              /\ call'.op = "save_data" /\ ret'.raised = "none"
              /\ file' = json_dump(save_document(Self))
        /\ ObservesSavedFile ]_vars

\* C15 (amended): the file changes only in save_data; a successful save_data
\* overwrites it with the saving manager's whole state, a failed one leaves it
\* as it was or leaves it truncated, and then a new manager starts from the
\* defaults; a new manager on a saved file observes exactly the saved state.
C15_FollowsLastSave ==
    [][ /\ file' # file =>
              /\ call'.op = "save_data"
              /\ IF ret'.raised = "none"
                 THEN file' = json_dump(save_document(Self))
                 ELSE ret'.raised = "IOError" /\ file' = [kind |-> "garbage"]
        /\ (call'.op = "save_data" /\ ret'.raised = "none") =>
              file' = json_dump(save_document(Self))
        /\ ObservesSavedFile
        /\ (call'.op = "BudgetManager" /\ file.kind = "garbage") =>
              (alive' /\ Self' = Defaults) ]_vars

\* a save_data has failed and left on disk an earlier save, which differs from
\* what the manager holds now
C15_Witness ==
    /\ call.op = "save_data" /\ ret.raised = "IOError"
    /\ file.kind = "json" /\ file \notin InitialFiles
    /\ file.data # save_document(Self)


(***************************************************************************)
(* The input validators: get_valid_float, get_valid_date and               *)
(* get_non_empty_string                                                    *)
(***************************************************************************)
\* how many entries the user has ready to type at one prompt
MaxTyped == 3

\* what the user types at a number prompt
FloatEntries ==
    { <<"a", "b", "c">>,
      <<"-", "1", "0">>,
      <<"0">>,
      <<"5", "0">>,
      <<"n", "a", "n">>,
      <<" ", "5", " ">> }

\* what the user types at a date prompt
DateEntries ==
    { <<"2", "0", "2", "5", "-", "1", "0", "-", "2", "5">>,
      <<"1", "0", "/", "2", "5", "/", "2", "0", "2", "5">>,
      <<"2", "0", "2", "5", "-", "1", "3", "-", "0", "1">>,
      <<"2", "0", "2", "5", "-", "0", "2", "-", "3", "0">>,
      <<"2", "0", "2", "5", "-", "1", "-", "5">> }

Digits == {"0", "1", "2", "3", "4", "5", "6", "7", "8", "9"}

DigitValue(c) ==
    CASE c = "0" -> 0 [] c = "1" -> 1 [] c = "2" -> 2 [] c = "3" -> 3
      [] c = "4" -> 4 [] c = "5" -> 5 [] c = "6" -> 6 [] c = "7" -> 7
      [] c = "8" -> 8 [] c = "9" -> 9

AllDigits(s) == s # << >> /\ \A i \in 1..Len(s) : s[i] \in Digits

\* the number a string of decimal digits denotes
RECURSIVE DecimalValue(_)
DecimalValue(s) ==
    IF s = << >> THEN 0
    ELSE 10 * DecimalValue(SubSeq(s, 1, Len(s) - 1)) + DigitValue(s[Len(s)])

\* float(str): surrounding whitespace is dropped, then an optional sign, then
\* "nan" in any case or decimal digits; anything else is a ValueError.  (The
\* decimal point, exponents, "inf" and digit separators are not offered.)
float(s) ==
    LET t == strip(s)
        signed == t # << >> /\ Head(t) \in {"-", "+"}
        body == IF signed THEN Tail(t) ELSE t
        sign == IF signed /\ Head(t) = "-" THEN -1 ELSE 1
    IN IF lower(body) = <<"n", "a", "n">> THEN Ok(NaN)
       ELSE IF AllDigits(body) THEN Ok(sign * DecimalValue(body))
       ELSE Raise("ValueError")

\* one pass of get_valid_float's loop over the entry read: "return" with the
\* value, or "retry" after one of the three error messages
get_valid_float_pass(entry, allow_zero) ==
    LET r == float(entry) IN
    IF r.raised # "none" THEN [then |-> "retry"]
    ELSE IF float_lt(r.value, 0) THEN [then |-> "retry"]
    ELSE IF ~allow_zero /\ float_eq(r.value, 0) THEN [then |-> "retry"]
    ELSE [then |-> "return", value |-> r.value]

\* str.split(sep)
RECURSIVE split(_, _)
split(s, sep) ==
    IF \A i \in 1..Len(s) : s[i] # sep THEN <<s>>
    ELSE LET i == CHOOSE k \in 1..Len(s) : s[k] = sep /\ \A j \in 1..(k - 1) : s[j] # sep
         IN <<SubSeq(s, 1, i - 1)>> \o split(SubSeq(s, i + 1, Len(s)), sep)

IsLeap(year) == (year % 4 = 0 /\ year % 100 # 0) \/ year % 400 = 0

DaysInMonth(year, month) ==
    IF month = 2 THEN (IF IsLeap(year) THEN 29 ELSE 28)
    ELSE IF month \in {4, 6, 9, 11} THEN 30 ELSE 31

\* a year, a month and a day that make a date of the calendar
IsDate(year, month, day) ==
    /\ year >= 1
    /\ month \in 1..12
    /\ day \in 1..DaysInMonth(year, month)

\* datetime.strptime(date_str, '%Y-%m-%d'): %Y is four digits, %m is one or
\* two digits, %d is one or two digits or a space and a digit; the whole
\* string must match and the three numbers must make a date
strptime_accepts(date_str) ==
    LET f == split(date_str, "-") IN
    /\ Len(f) = 3
    /\ Len(f[1]) = 4 /\ AllDigits(f[1])
    /\ Len(f[2]) \in 1..2 /\ AllDigits(f[2])
    /\ LET d == IF Len(f[3]) = 2 /\ f[3][1] = " " THEN Tail(f[3]) ELSE f[3] IN
       /\ Len(f[3]) \in 1..2 /\ AllDigits(d)
       /\ IsDate(DecimalValue(f[1]), DecimalValue(f[2]), DecimalValue(d))

\* one pass of get_valid_date's loop over the entry read
get_valid_date_pass(entry) ==
    IF strptime_accepts(entry) THEN [then |-> "return", value |-> entry]
    ELSE [then |-> "retry"]

\* one pass of get_non_empty_string's loop over the entry read
get_non_empty_string_pass(entry) ==
    IF strip(entry) # << >> THEN [then |-> "return", value |-> strip(entry)]
    ELSE [then |-> "retry"]

\* the user's entries for one prompt: one to MaxTyped of them
Typed(entries) == UNION { [1..n -> entries] : n \in 1..MaxTyped }

\* a validator is called when no other is reading; nothing is read yet
call_get_valid_float(typed, allow_zero) ==
    /\ prompt.returned
    /\ prompt' = [fn |-> "get_valid_float", allow_zero |-> allow_zero, typed |-> typed,
                  reads |-> 0, returned |-> FALSE, value |-> NaN]
    /\ UNCHANGED <<mgr_vars, category, call, ret, pc>>

call_get_valid_date(typed) ==
    /\ prompt.returned
    /\ prompt' = [fn |-> "get_valid_date", typed |-> typed,
                  reads |-> 0, returned |-> FALSE, value |-> << >>]
    /\ UNCHANGED <<mgr_vars, category, call, ret, pc>>

\* one pass of the loop "while True": input() reads the next entry
get_valid_float ==
    /\ prompt.fn = "get_valid_float" /\ ~prompt.returned
    /\ prompt.reads < Len(prompt.typed)
    /\ LET pass == get_valid_float_pass(prompt.typed[prompt.reads + 1], prompt.allow_zero) IN
       prompt' = IF pass.then = "return"
                 THEN [prompt EXCEPT !.reads = @ + 1, !.returned = TRUE, !.value = pass.value]
                 ELSE [prompt EXCEPT !.reads = @ + 1]
    /\ UNCHANGED <<mgr_vars, category, call, ret, pc>>

get_valid_date ==
    /\ prompt.fn = "get_valid_date" /\ ~prompt.returned
    /\ prompt.reads < Len(prompt.typed)
    /\ LET pass == get_valid_date_pass(prompt.typed[prompt.reads + 1]) IN
       prompt' = IF pass.then = "return"
                 THEN [prompt EXCEPT !.reads = @ + 1, !.returned = TRUE, !.value = pass.value]
                 ELSE [prompt EXCEPT !.reads = @ + 1]
    /\ UNCHANGED <<mgr_vars, category, call, ret, pc>>

NextInput ==
    \/ \E typed \in Typed(FloatEntries), allow_zero \in BOOLEAN :
            call_get_valid_float(typed, allow_zero)
    \/ \E typed \in Typed(DateEntries) : call_get_valid_date(typed)
    \/ get_valid_float
    \/ get_valid_date

InitInput == Init /\ file = [kind |-> "missing"]

SpecInput == InitInput /\ [][NextInput]_vars


(***************************************************************************)
(* C20: the validators as retry-until-valid loops                          *)
(***************************************************************************)
\* an entry that parses as a number and is >= 0, and non-zero unless
\* allow_zero is set
IsValidNumber(entry, allow_zero) ==
    LET r == float(entry) IN
    /\ r.raised = "none"
    /\ float_ge(r.value, 0)
    /\ allow_zero \/ ~float_eq(r.value, 0)

\* an entry that is a real calendar date written YYYY-MM-DD
IsCalendarDate(entry) ==
    /\ Len(entry) = 10
    /\ entry[5] = "-" /\ entry[8] = "-"
    /\ \A i \in (1..10) \ {5, 8} : entry[i] \in Digits
    /\ IsDate(DecimalValue(SubSeq(entry, 1, 4)), DecimalValue(SubSeq(entry, 6, 7)),
              DecimalValue(SubSeq(entry, 9, 10)))

\* C20: get_valid_float returns the first entry that parses as a number and is
\* >= 0 (non-zero unless allow_zero), get_valid_date returns unchanged the first
\* entry that is a real calendar date in YYYY-MM-DD form: of the entries read,
\* the valid one is exactly the last one of a call that has returned, every
\* entry read before it was rejected, and the value returned is that entry's
C20_RetryUntilValid ==
    /\ prompt.fn = "get_valid_float" =>
        /\ \A i \in 1..prompt.reads :
              IsValidNumber(prompt.typed[i], prompt.allow_zero)
                  <=> (prompt.returned /\ i = prompt.reads)
        /\ prompt.returned => prompt.value = float(prompt.typed[prompt.reads]).value
    /\ prompt.fn = "get_valid_date" =>
        /\ \A i \in 1..prompt.reads :
              IsCalendarDate(prompt.typed[i]) <=> (prompt.returned /\ i = prompt.reads)
        /\ prompt.returned => prompt.value = prompt.typed[prompt.reads]


(***************************************************************************)
(* main(): the menu loop                                                   *)
(***************************************************************************)
\* what the user types at "Choose an option (1-7): "
ChoiceInputs ==
    { <<"1">>, <<"2">>, <<"3">>, <<"4">>, <<"5">>, <<"6">>, <<"7">>,
      <<" ", "7", " ">>, <<"8">>, << >> }

\* what the user types at "Do you still want to exit? (yes/no): "
RetryInputs == { <<"y", "e", "s">>, <<"Y", "E", "S">>, <<"n", "o">>, <<" ", "y", "e", "s">> }

\* what the user types at the category prompt and at the description prompt
CategoryEntries == NameInputs \cup { <<" ">> }
DescriptionEntries == { <<" ", "r", "e", "n", "t">>, <<" ">> }

\* the Python str a run of typed characters makes, for the descriptions and
\* dates that the Expense records of this model hold as one value
text(s) ==
    CASE s = <<"r", "e", "n", "t">> -> "rent"
      [] s = <<"2", "0", "2", "5", "-", "1", "0", "-", "2", "5">> -> "2025-10-25"
      [] s = <<"2", "0", "2", "5", "-", "1", "-", "5">> -> "2025-1-5"

\* the values a validator can hand back to main: the value of the entry that
\* ends its loop, whatever rejected entries came before
get_valid_float_returns(allow_zero) ==
    { get_valid_float_pass(entry, allow_zero).value :
        entry \in { e \in FloatEntries : get_valid_float_pass(e, allow_zero).then = "return" } }

get_valid_date_returns ==
    { get_valid_date_pass(entry).value :
        entry \in { e \in DateEntries : get_valid_date_pass(e).then = "return" } }

get_non_empty_string_returns(entries) ==
    { get_non_empty_string_pass(entry).value :
        entry \in { e \in entries : get_non_empty_string_pass(e).then = "return" } }

\* visualize_expenses draws nothing when no category has a total above zero;
\* otherwise pyplot draws, or raises (no display, no backend)
BudgetManager_visualize_expenses(self) ==
    IF \A name \in DOMAIN self.categories :
            ~float_lt(0, BudgetCategory_total_expenses(self.categories[name]))
    THEN {"none"}
    ELSE {"none", "RuntimeError"}

\* manager = BudgetManager(), outside every try: what __init__ raises leaves main
main_start ==
    /\ pc = "start"
    /\ \E out \in BudgetManager_load_data(Defaults, file) :
        /\ SetSelf(out.self)
        /\ alive' = (out.raised = "none")
        /\ ret' = Outcome(out.raised)
        /\ pc' = IF out.raised = "none" THEN "menu" ELSE "crashed"
    /\ call' = [op |-> "main", choice |-> << >>]
    /\ UNCHANGED <<file, category, prompt>>

\* option 1, inside try ... except Exception
main_set_income(choice, amount) ==
    /\ pc = "menu" /\ strip(choice) = <<"1">>
    /\ LET out == BudgetManager_set_income(Self, amount) IN
        /\ SetSelf(out.self)
        /\ ret' = Outcome(out.raised)
    /\ call' = [op |-> "main", choice |-> strip(choice), amount |-> amount]
    /\ UNCHANGED <<alive, file, category, pc, prompt>>

\* option 2, inside try ... except Exception
main_set_savings_goal(choice, amount) ==
    /\ pc = "menu" /\ strip(choice) = <<"2">>
    /\ LET out == BudgetManager_set_savings_goal(Self, amount) IN
        /\ SetSelf(out.self)
        /\ ret' = Outcome(out.raised)
    /\ call' = [op |-> "main", choice |-> strip(choice), amount |-> amount]
    /\ UNCHANGED <<alive, file, category, pc, prompt>>

\* option 3, inside try ... except ValueError ... except Exception
main_add_expense(choice, category_name, amount, description, date) ==
    /\ pc = "menu" /\ strip(choice) = <<"3">>
    /\ Expense(amount, text(description), text(date)).raised = "none"
            => count_expenses(categories) < MaxExpenses
    /\ LET out == BudgetManager_add_expense(Self, category_name, amount,
                                            text(description), text(date)) IN
        /\ SetSelf(out.self)
        /\ ret' = Outcome(out.raised)
    /\ call' = [op |-> "main", choice |-> strip(choice),
                category_name |-> category_name, amount |-> amount]
    /\ UNCHANGED <<alive, file, category, pc, prompt>>

\* option 4, in no try: the total and the per-category totals are printed
main_view_total(choice) ==
    /\ pc = "menu" /\ strip(choice) = <<"4">>
    /\ ret' = Ok(BudgetManager_total_expenses(Self))
    /\ call' = [op |-> "main", choice |-> strip(choice)]
    /\ UNCHANGED <<mgr_vars, category, pc, prompt>>

\* option 5, in no try: what progress_toward_goal raises leaves main
main_view_progress(choice) ==
    /\ pc = "menu" /\ strip(choice) = <<"5">>
    /\ IF BudgetManager_progress_raised(Self) = "none"
       THEN /\ ret' = Ok(BudgetManager_progress_toward_goal(Self))
            /\ pc' = "menu"
       ELSE /\ ret' = Raise(BudgetManager_progress_raised(Self))
            /\ pc' = "crashed"
    /\ call' = [op |-> "main", choice |-> strip(choice)]
    /\ UNCHANGED <<mgr_vars, category, prompt>>

\* option 6, inside try ... except Exception
main_visualize(choice) ==
    /\ pc = "menu" /\ strip(choice) = <<"6">>
    /\ \E raised \in BudgetManager_visualize_expenses(Self) : ret' = Outcome(raised)
    /\ call' = [op |-> "main", choice |-> strip(choice)]
    /\ UNCHANGED <<mgr_vars, category, pc, prompt>>

\* option 7: save_data inside try; break after a save, or after a failed save
\* when the answer, lowercased, is 'yes'
main_save_exit(choice, retry) ==
    /\ pc = "menu" /\ strip(choice) = <<"7">>
    /\ \E out \in BudgetManager_save_data(Self, file) :
        /\ file' = out.file
        /\ ret' = Outcome(out.raised)
        /\ pc' = IF out.raised = "none" \/ lower(retry) = <<"y", "e", "s">>
                 THEN "exited" ELSE "menu"
        /\ call' = [op |-> "main", choice |-> strip(choice),
                    retry |-> IF out.raised = "none" THEN << >> ELSE retry]
    /\ UNCHANGED <<income, savings_goal, categories, alive, category, prompt>>

\* else: "Invalid choice. Please try again."
main_invalid_choice(choice) ==
    /\ pc = "menu"
    /\ strip(choice) \notin {<<"1">>, <<"2">>, <<"3">>, <<"4">>, <<"5">>, <<"6">>, <<"7">>}
    /\ call' = [op |-> "main", choice |-> strip(choice)]
    /\ ret' = None
    /\ UNCHANGED <<mgr_vars, category, pc, prompt>>

NextMain ==
    \/ main_start
    \/ \E choice \in ChoiceInputs, amount \in get_valid_float_returns(TRUE) :
            main_set_income(choice, amount)
    \/ \E choice \in ChoiceInputs, amount \in get_valid_float_returns(TRUE) :
            main_set_savings_goal(choice, amount)
    \/ \E choice \in ChoiceInputs,
          category_name \in get_non_empty_string_returns(CategoryEntries),
          amount \in get_valid_float_returns(FALSE),
          description \in get_non_empty_string_returns(DescriptionEntries),
          date \in get_valid_date_returns :
            main_add_expense(choice, category_name, amount, description, date)
    \/ \E choice \in ChoiceInputs : main_view_total(choice)
    \/ \E choice \in ChoiceInputs : main_view_progress(choice)
    \/ \E choice \in ChoiceInputs : main_visualize(choice)
    \/ \E choice \in ChoiceInputs, retry \in RetryInputs : main_save_exit(choice, retry)
    \/ \E choice \in ChoiceInputs : main_invalid_choice(choice)

\* the data files main may find: those above, and one whose income is a JSON
\* string, which load_data stores as it is
MainFiles == InitialFiles \cup { json_dump([income |-> NoNumber]) }

InitMain ==
    /\ income = Defaults.income
    /\ savings_goal = Defaults.savings_goal
    /\ categories = Defaults.categories
    /\ alive = FALSE
    /\ file \in MainFiles
    /\ category = BudgetCategory(<<"g">>)
    /\ call = [op |-> "start"]
    /\ ret = None
    /\ pc = "start"
    /\ prompt = [fn |-> "idle", typed |-> << >>, reads |-> 0, returned |-> TRUE]

SpecMain == InitMain /\ [][NextMain]_vars

\* C13 (as claimed): no exception raised by a BudgetManager call made from
\* main, the construction included, leaves main.
C13_NoExceptionEscapes == pc # "crashed"


(***************************************************************************)
(* C21: how the menu loop ends                                             *)
(***************************************************************************)
MenuChoices == { <<"1">>, <<"2">>, <<"3">>, <<"4">>, <<"5">>, <<"6">>, <<"7">> }

ManagerUnchanged ==
    /\ income' = income
    /\ savings_goal' = savings_goal
    /\ categories' = categories

\* C21 (as claimed): a pass of the menu loop leaves the loop only through
\* option 7, after a save that succeeded or after a save that failed and the
\* answer 'yes', exactly so typed; a failed save with another answer, and a
\* choice outside 1-7, return to the menu with the manager's state unchanged.
C21_EndsOnlyThroughOption7 ==
    [][ pc = "menu" =>
          /\ pc' # "menu" =>
                /\ pc' = "exited"
                /\ call'.choice = <<"7">>
                /\ ret'.raised = "none" \/ call'.retry = <<"y", "e", "s">>
          /\ (call'.choice = <<"7">> /\ ret'.raised # "none"
                    /\ call'.retry # <<"y", "e", "s">>) =>
                (pc' = "menu" /\ ManagerUnchanged)
          /\ call'.choice \notin MenuChoices => (pc' = "menu" /\ ManagerUnchanged)
      ]_vars


(***************************************************************************)
(* C22: what main passes to the manager                                    *)
(***************************************************************************)
\* C22 (as claimed): every amount main passes to set_income or
\* set_savings_goal is >= 0, every amount it passes to add_expense is > 0 and
\* every category name it passes is non-empty after trimming, so none of these
\* calls raises a ValueError and no category has an empty name.
C22_ValidationUnreachable ==
    /\ (call.op = "main" /\ call.choice \in {<<"1">>, <<"2">>}) =>
            (float_ge(call.amount, 0) /\ ret.raised # "ValueError")
    /\ (call.op = "main" /\ call.choice = <<"3">>) =>
            /\ float_lt(0, call.amount)
            /\ strip(call.category_name) # << >>
            /\ ret.raised # "ValueError"
    /\ pc \in {"menu", "exited"} => << >> \notin DOMAIN categories


(***************************************************************************)
(* calculator.py: the arithmetic functions.  A number is a float, held as  *)
(* a fraction in lowest terms or as not-a-number; None is Python's None    *)
(***************************************************************************)
Abs(n) == IF n < 0 THEN -n ELSE n

RECURSIVE GCD(_, _)
GCD(a, b) == IF b = 0 THEN a ELSE GCD(b, a % b)

\* the float n / d, for d # 0
Fraction(n, d) ==
    LET g == GCD(Abs(n), Abs(d))
        s == IF d < 0 THEN -1 ELSE 1
    IN [is |-> "float", n |-> (s * n) \div g, d |-> (s * d) \div g]

CalcNaN == [is |-> "nan", n |-> 0, d |-> 1]
CalcNone == [is |-> "None", n |-> 0, d |-> 1]

\* x == 0 for a float x: False for not-a-number
IsZero(x) == x.is = "float" /\ x.n = 0

\* the numbers offered to the functions
CalcNumbers ==
    { Fraction(-2, 1), Fraction(0, 1), Fraction(1, 1), Fraction(3, 1), Fraction(1, 2),
      CalcNaN }

OperationInputs == 0..5

add(num1, num2) ==
    IF num1.is = "nan" \/ num2.is = "nan" THEN CalcNaN
    ELSE Fraction(num1.n * num2.d + num2.n * num1.d, num1.d * num2.d)

subtract(num1, num2) ==
    IF num1.is = "nan" \/ num2.is = "nan" THEN CalcNaN
    ELSE Fraction(num1.n * num2.d - num2.n * num1.d, num1.d * num2.d)

multiply(num1, num2) ==
    IF num1.is = "nan" \/ num2.is = "nan" THEN CalcNaN
    ELSE Fraction(num1.n * num2.n, num1.d * num2.d)

\* num1 / num2 on floats: ZeroDivisionError for a zero divisor
truediv(num1, num2) ==
    IF IsZero(num2) THEN Raise("ZeroDivisionError")
    ELSE IF num1.is = "nan" \/ num2.is = "nan" THEN Ok(CalcNaN)
    ELSE Ok(Fraction(num1.n * num2.d, num1.d * num2.n))

\* divide without the test of the divisor
divide_unguarded(num1, num2) == truediv(num1, num2)

divide(num1, num2) ==
    IF IsZero(num2) THEN Ok(CalcNone) ELSE truediv(num1, num2)

\* the tuple (result, symbol)
Pair(result, symbol) == [is |-> "tuple", result |-> result, symbol |-> symbol]

\* perform_calculation: a (result, symbol) pair for the operations 1 to 4; for
\* any other operation the function ends without a return statement
perform_calculation(operation, num1, num2) ==
    CASE operation = 1 -> Ok(Pair(add(num1, num2), "+"))
      [] operation = 2 -> Ok(Pair(subtract(num1, num2), "-"))
      [] operation = 3 -> Ok(Pair(multiply(num1, num2), "×"))
      [] operation = 4 ->
            LET result == divide(num1, num2) IN
            IF result.raised # "none" THEN result ELSE Ok(Pair(result.value, "÷"))
      [] OTHER -> Ok(CalcNone)

call_divide(num1, num2) ==
    /\ call' = [op |-> "divide", num1 |-> num1, num2 |-> num2]
    /\ ret' = divide(num1, num2)
    /\ UNCHANGED <<mgr_vars, category, cli_vars>>

call_perform_calculation(operation, num1, num2) ==
    /\ call' = [op |-> "perform_calculation", operation |-> operation,
                num1 |-> num1, num2 |-> num2]
    /\ ret' = perform_calculation(operation, num1, num2)
    /\ UNCHANGED <<mgr_vars, category, cli_vars>>

(***************************************************************************)
(* calculator.py: get_operation_choice, get_number and main                *)
(***************************************************************************)
\* what the user types at "Enter your choice (1-5): "
OperationEntries ==
    { <<"1">>, <<"2">>, <<"3">>, <<"4">>, <<"5">>, <<"0">>, <<"6">>, <<" ", "4", " ">>,
      <<"4", ".", "0">>, <<"a", "b", "c">>, <<"-", "1">> }

\* what the user types at "Do you want to perform another calculation?"
ContinueInputs == { <<"y">>, <<"Y", "E", "S">>, <<"n", "o">>, << >> }

\* int(str): surrounding whitespace is dropped, then an optional sign, then
\* decimal digits; anything else is a ValueError
int(s) ==
    LET t == strip(s)
        signed == t # << >> /\ Head(t) \in {"-", "+"}
        body == IF signed THEN Tail(t) ELSE t
        sign == IF signed /\ Head(t) = "-" THEN -1 ELSE 1
    IN IF AllDigits(body) THEN Ok(sign * DecimalValue(body)) ELSE Raise("ValueError")

\* a pass of get_operation_choice that takes the choices 1 to 6
get_operation_choice_upto6(entry) ==
    LET r == int(entry) IN
    IF r.raised # "none" THEN [then |-> "retry"]
    ELSE IF 1 <= r.value /\ r.value <= 6 THEN [then |-> "return", value |-> r.value]
    ELSE [then |-> "retry"]

\* one pass of get_operation_choice's loop over the entry read
get_operation_choice_pass(entry) ==
    LET r == int(entry) IN
    IF r.raised # "none" THEN [then |-> "retry"]
    ELSE IF 1 <= r.value /\ r.value <= 5 THEN [then |-> "return", value |-> r.value]
    ELSE [then |-> "retry"]

\* one pass of get_number's loop over the entry read
get_number_pass(entry) ==
    LET r == float(entry) IN
    IF r.raised # "none" THEN [then |-> "retry"]
    ELSE [then |-> "return",
          value |-> IF IsNaN(r.value) THEN CalcNaN ELSE Fraction(r.value, 1)]

\* the values the two functions can hand back to main: the value of the entry
\* that ends the loop
get_operation_choice_returns ==
    { get_operation_choice_pass(entry).value :
        entry \in { e \in OperationEntries : get_operation_choice_pass(e).then = "return" } }

get_number_returns ==
    { get_number_pass(entry).value :
        entry \in { e \in FloatEntries : get_number_pass(e).then = "return" } }

\* main prints its welcome and enters the loop
calculator_welcome ==
    /\ pc = "start"
    /\ pc' = "menu"
    /\ call' = [op |-> "calculator.main", operation |-> 0]
    /\ ret' = None
    /\ UNCHANGED <<mgr_vars, category, prompt>>

\* a pass of the loop with the choice 5: break
calculator_exit(operation) ==
    /\ pc = "menu" /\ operation = 5
    /\ pc' = "exited"
    /\ call' = [op |-> "calculator.main", operation |-> operation]
    /\ ret' = None
    /\ UNCHANGED <<mgr_vars, category, prompt>>

\* a pass of the loop with another choice: two numbers are read, the result of
\* perform_calculation is unpacked and shown, and the loop goes on when the
\* answer, lowercased, is 'yes' or 'y'
calculator_pass(operation, num1, num2, continue_choice) ==
    /\ pc = "menu" /\ operation # 5
    /\ LET out == perform_calculation(operation, num1, num2) IN
       IF out.raised # "none"
       THEN ret' = out /\ pc' = "crashed"
       ELSE IF out.value.is # "tuple"
       THEN ret' = Raise("TypeError") /\ pc' = "crashed"
       ELSE /\ ret' = out
            /\ pc' = IF lower(continue_choice) \in {<<"y", "e", "s">>, <<"y">>}
                     THEN "menu" ELSE "exited"
    /\ call' = [op |-> "calculator.main", operation |-> operation, num1 |-> num1,
                num2 |-> num2, continue_choice |-> continue_choice]
    /\ UNCHANGED <<mgr_vars, category, prompt>>

\* the functions called one by one, as the tests call them, and the program
NextCalc ==
    \/ \E num1 \in CalcNumbers, num2 \in CalcNumbers : call_divide(num1, num2)
    \/ \E operation \in OperationInputs, num1 \in CalcNumbers, num2 \in CalcNumbers :
            call_perform_calculation(operation, num1, num2)
    \/ calculator_welcome
    \/ \E operation \in get_operation_choice_returns : calculator_exit(operation)
    \/ \E operation \in get_operation_choice_returns,
          num1 \in get_number_returns, num2 \in get_number_returns,
          continue_choice \in ContinueInputs :
            calculator_pass(operation, num1, num2, continue_choice)

InitCalc == Init /\ file = [kind |-> "missing"]

SpecCalc == InitCalc /\ [][NextCalc]_vars


(***************************************************************************)
(* C23: divide                                                             *)
(***************************************************************************)
\* q is the quotient of a by b, for b not zero: q times b is a, or q is
\* not-a-number when a or b is
IsQuotient(q, a, b) ==
    IF a.is = "float" /\ b.is = "float" THEN q.is = "float" /\ multiply(q, b) = a
    ELSE q = CalcNaN

\* x == y on floats: False when either is not-a-number
calc_eq(x, y) == x.is = "float" /\ y.is = "float" /\ x = y

\* C23 (as claimed): divide returns None exactly when num2 == 0 and never
\* raises; for every num2 != 0 it returns the quotient, divide(0, n) = 0 and
\* divide(n, 1) = n.
C23_DivideAsClaimed ==
    call.op = "divide" =>
        /\ ret.raised = "none"
        /\ ret.value = CalcNone <=> IsZero(call.num2)
        /\ ~IsZero(call.num2) =>
            /\ IsQuotient(ret.value, call.num1, call.num2)
            /\ IsZero(call.num1) => calc_eq(ret.value, Fraction(0, 1))
            /\ calc_eq(call.num2, Fraction(1, 1)) => calc_eq(ret.value, call.num1)

\* C23: divide returns None exactly when num2 == 0 and never raises; for
\* num2 != 0 it returns the quotient, which is 0 for divide(0, n) with n a
\* number other than 0, is n for divide(n, 1) with n a number, and is
\* not-a-number whenever num1 or num2 is.
C23_Divide ==
    call.op = "divide" =>
        /\ ret.raised = "none"
        /\ ret.value = CalcNone <=> IsZero(call.num2)
        /\ ~IsZero(call.num2) =>
            /\ IsQuotient(ret.value, call.num1, call.num2)
            /\ (IsZero(call.num1) /\ call.num2.is = "float") =>
                    calc_eq(ret.value, Fraction(0, 1))
            /\ (calc_eq(call.num2, Fraction(1, 1)) /\ call.num1.is = "float") =>
                    calc_eq(ret.value, call.num1)
            /\ (call.num1.is = "nan" \/ call.num2.is = "nan") => ret.value = CalcNaN

\* divide(0, 0) was called and returned None
C23_Witness ==
    /\ call.op = "divide"
    /\ IsZero(call.num1) /\ IsZero(call.num2)
    /\ ret = Ok(CalcNone)


(***************************************************************************)
(* C24: perform_calculation and its use in main                            *)
(***************************************************************************)
\* the pair the claim names for an operation of 1..4
ExpectedPair(operation, num1, num2) ==
    CASE operation = 1 -> Pair(add(num1, num2), "+")
      [] operation = 2 -> Pair(subtract(num1, num2), "-")
      [] operation = 3 -> Pair(multiply(num1, num2), "×")
      [] operation = 4 ->
            IF IsZero(num2) THEN Pair(CalcNone, "÷")
            ELSE Pair(divide(num1, num2).value, "÷")

====
